---------------------------- MODULE Spec2Model ----------------------------
(***************************************************************************)
(* Kinetic English Games (shapes and sizes quiz): the session state        *)
(* machine and the scoring engine of src/shapes.js (module KineticGame).   *)
(*                                                                         *)
(* The browser runs every handler to completion, so each handler is one    *)
(* atomic action.  The events are: the clicks on Start, Play again, Next   *)
(* and on an answer button, the firing of a pending                        *)
(* setTimeout(generateQuestion) and the firing of a running setInterval    *)
(* countdown.  Timers are untimed here: setTimeout and setInterval only    *)
(* promise a minimum delay, so any interleaving of pending callbacks and   *)
(* clicks is admitted.                                                     *)
(*                                                                         *)
(* DOM state the handlers themselves set is kept where later behaviour     *)
(* depends on it: the active screen, the show/hidden class of the Next     *)
(* button, whether the rendered answer buttons are enabled.  A button is   *)
(* taken to be clickable when its screen is the active one and, for Next,  *)
(* when it carries the class 'show'; the Next button starts hidden.        *)
(***************************************************************************)
EXTENDS Integers, Sequences, FiniteSets, TLC

VARIABLES
    screen,            \* the screen carrying class 'active'
    currentQuestion,   \* gameState.currentQuestion
    score,             \* gameState.score
    streak,            \* gameState.streak
    correctAnswers,    \* gameState.correctAnswers
    incorrectAnswers,  \* gameState.incorrectAnswers
    timerValue,        \* gameState.timerValue
    timerRunning,      \* the interval whose id gameState.timerInterval holds is active
    leaked,            \* some active interval's id is held by no variable any more
    isAnswered,        \* gameState.isAnswered
    hasQuestion,       \* gameState.currentQuestionData # null
    difficulty,        \* gameState.difficulty
    pendingGen,        \* pending setTimeout(generateQuestion) callbacks
    nextBtnShown,      \* the Next button carries class 'show'
    buttons,           \* the rendered answer buttons: "none", "enabled", "disabled"
    results,           \* the text of the results screen, NoResults when not written
    lastCall,          \* history: the answer or countdown handler, if it ran last
    history,           \* history: one entry per resolution of this session
    resolutions,       \* history: resolutions of the current question so far
    slowNow,           \* exploration budget: the current question already counts
    imperfectUsed,     \* exploration budget: questions counted so far
    creation,          \* the run of createQuestion: its constants and its result
    shown              \* history: the questions generated in this session, where kept

vars == <<screen, currentQuestion, score, streak, correctAnswers,
          incorrectAnswers, timerValue, timerRunning, leaked, isAnswered,
          hasQuestion, difficulty, pendingGen, nextBtnShown, buttons, results,
          lastCall, history, resolutions, slowNow, imperfectUsed, creation,
          shown>>

gameVars == <<currentQuestion, score, streak, correctAnswers,
              incorrectAnswers, timerValue, isAnswered, hasQuestion,
              difficulty>>

----------------------------------------------------------------------------
(* CONFIG, src/shapes.js 318-326 *)

totalQuestions == 20
timerDuration == 15
pointsCorrect == 10
pointsTimeBonus == 30
pointsStreak == 5
minCombinationsBeforeRepeat == 8

(* Bounds of the exploration *)

\* pending setTimeout(generateQuestion) callbacks at any one time
MaxPending == 2
\* ticks a left-over interval may count below zero
MaxOverrun == 1
\* questions of a run handled other than by the right answer at full time
MaxImperfect == 1
\* an answer changes the state at full time or in the last LateWindow seconds
LateWindow == 1
\* questions of a session whose generation is followed draw by draw
MaxShown == 2
\* the largest streak the scoring of one answer is tried on
MaxStreakIn == 20

NoResults ==
    [score |-> -1, correct |-> -1, incorrect |-> -1, accuracy |-> -1,
     message |-> "none"]

(* A figure of a display (createShapeObject, lines 221-228, without its    *)
(* svg) and the value of a figure that is not in scope                     *)
Figure(sh, co, si) == [shape |-> sh, color |-> co, size |-> si]

NoFigure == Figure("none", "none", "none")

(* No run of createQuestion: the record of the constants and of the result *)
(* of a run.  at: how far the run is; type: the question type; shape,      *)
(* color, size: the constants shape / targetShape, color / targetColor,    *)
(* size / targetSize of the creator; targetCount, numShapes,               *)
(* distractorCount: its constants of these names; figure: the figure the   *)
(* last loop iteration (or the only statement) pushed, and role: as        *)
(* "target" or as "distractor"; asked: for each figure of shapes, in       *)
(* order, whether it is a figure the question asks about; clicked: the     *)
(* text of the answer button clicked, where the click is followed.         *)
NoCreation ==
    [at |-> "idle", type |-> "none", shape |-> "none", color |-> "none",
     size |-> "none", targetCount |-> 0, numShapes |-> 0,
     distractorCount |-> 0, figure |-> NoFigure, role |-> "none",
     asked |-> <<>>, correctAnswer |-> "none", options |-> <<>>,
     highlightIndex |-> -1, clicked |-> "none"]

----------------------------------------------------------------------------
(* Math.round of the rational n / d, d > 0: the nearest integer, halves up *)
Round(n, d) == (2 * n + d) \div (2 * d)

(* handleCorrectAnswer, line 1057 *)
TimeBonus(tv) == Round(tv * pointsTimeBonus, timerDuration)

(* Faulty variant of StreakBonus: the streak bonus without the "- 1" of line 1062 *)
StreakBonusNoOffset(newStreak) ==
    IF newStreak >= 2 THEN pointsStreak * newStreak ELSE 0

(* handleCorrectAnswer, lines 1061-1062, on the streak already incremented *)
StreakBonus(newStreak) ==
    IF newStreak >= 2 THEN pointsStreak * (newStreak - 1) ELSE 0

(* Faulty variant of Points: the streak bonus of lines 1061-1066 is forgotten *)
PointsWithoutStreak(tv, newStreak) == pointsCorrect + TimeBonus(tv)

(* handleCorrectAnswer, lines 1056-1066: the points of one correct answer *)
Points(tv, newStreak) == pointsCorrect + TimeBonus(tv) + StreakBonus(newStreak)

(* Faulty variant of Accuracy: the fraction without the "* 100" of line 547 *)
AccuracyAsFraction(correct) == Round(correct, totalQuestions)

(* endGame, line 547 *)
Accuracy(correct) == Round(correct * 100, totalQuestions)

(* Faulty variant of getMotivationMessage: ">" for the ">=" of line 572 *)
getMotivationMessageAbove(accuracy) ==
    IF accuracy > 90 THEN "Outstanding! You're a shapes master!"
    ELSE IF accuracy >= 75 THEN "Excellent work! Keep learning!"
    ELSE IF accuracy >= 60 THEN "Good job! Practice makes perfect!"
    ELSE IF accuracy >= 40 THEN "Nice try! You're getting better!"
    ELSE "Keep practicing! You'll improve!"

(* getMotivationMessage, lines 571-577; the messages are written without   *)
(* the emoji and the space they begin with                                 *)
getMotivationMessage(accuracy) ==
    IF accuracy >= 90 THEN "Outstanding! You're a shapes master!"
    ELSE IF accuracy >= 75 THEN "Excellent work! Keep learning!"
    ELSE IF accuracy >= 60 THEN "Good job! Practice makes perfect!"
    ELSE IF accuracy >= 40 THEN "Nice try! You're getting better!"
    ELSE "Keep practicing! You'll improve!"

(* generateQuestion, lines 589-595 *)
DifficultyOf(q) == IF q <= 7 THEN 1 ELSE IF q <= 14 THEN 2 ELSE 3

----------------------------------------------------------------------------
(* History entries: what resolved the question ("answer" or "timeout"),    *)
(* was it a correct answer, with how many seconds remaining, and the       *)
(* points it was awarded.                                                  *)
Entry(b, c, r, p) == [by |-> b, correct |-> c, remaining |-> r, points |-> p]

RECURSIVE SumPoints(_)
SumPoints(h) == IF h = <<>> THEN 0 ELSE h[1].points + SumPoints(Tail(h))

RECURSIVE TrailingCorrect(_)
TrailingCorrect(h) ==
    IF h = <<>> THEN 0
    ELSE IF h[Len(h)].correct
         THEN 1 + TrailingCorrect(SubSeq(h, 1, Len(h) - 1))
         ELSE 0

----------------------------------------------------------------------------
Init ==
    /\ screen = "intro"
    /\ currentQuestion = 0
    /\ score = 0
    /\ streak = 0
    /\ correctAnswers = 0
    /\ incorrectAnswers = 0
    /\ timerValue = timerDuration
    /\ timerRunning = FALSE
    /\ leaked = FALSE
    /\ isAnswered = FALSE
    /\ hasQuestion = FALSE
    /\ difficulty = 1
    /\ pendingGen = 0
    /\ nextBtnShown = FALSE
    /\ buttons = "none"
    /\ results = NoResults
    /\ lastCall = "other"
    /\ history = <<>>
    /\ resolutions = 0
    /\ slowNow = FALSE
    /\ imperfectUsed = 0
    /\ creation = NoCreation
    /\ shown = <<>>

(* Faulty variant of resetGameState: the new object takes over the score   *)
(* of the old one                                                          *)
resetGameStateKeepsScore ==
    /\ currentQuestion' = 0
    /\ score' = score
    /\ streak' = 0
    /\ correctAnswers' = 0
    /\ incorrectAnswers' = 0
    /\ timerValue' = timerDuration
    /\ leaked' = (leaked \/ timerRunning)
    /\ timerRunning' = FALSE
    /\ isAnswered' = FALSE
    /\ hasQuestion' = FALSE
    /\ difficulty' = 1
    /\ history' = <<>>
    /\ resolutions' = 0
    /\ shown' = <<>>

(* resetGameState, lines 504-520: a fresh gameState object.  The interval  *)
(* id of the old object is dropped without clearInterval.                  *)
resetGameState ==
    /\ currentQuestion' = 0
    /\ score' = 0
    /\ streak' = 0
    /\ correctAnswers' = 0
    /\ incorrectAnswers' = 0
    /\ timerValue' = timerDuration
    /\ leaked' = (leaked \/ timerRunning)
    /\ timerRunning' = FALSE
    /\ isAnswered' = FALSE
    /\ hasQuestion' = FALSE
    /\ difficulty' = 1
    /\ history' = <<>>
    /\ resolutions' = 0
    /\ shown' = <<>>

(* startGame, lines 470-485 *)
startGame ==
    /\ screen = "intro"
    /\ pendingGen < MaxPending
    /\ resetGameState
    /\ screen' = "game"
    /\ pendingGen' = pendingGen + 1
    /\ lastCall' = "other"
    /\ UNCHANGED <<nextBtnShown, buttons, results, slowNow, imperfectUsed,
                   creation>>

(* restartGame, lines 490-499.  The text of the results screen is not      *)
(* touched by the code; it is forgotten here because nothing reads it      *)
(* before endGame writes it again.                                         *)
restartGame ==
    /\ screen = "results"
    /\ pendingGen < MaxPending
    /\ resetGameState
    /\ screen' = "game"
    /\ pendingGen' = pendingGen + 1
    /\ results' = NoResults
    /\ lastCall' = "other"
    /\ UNCHANGED <<nextBtnShown, buttons, slowNow, imperfectUsed, creation>>

(* Faulty variant of startTimer: the countdown goes on from the value it   *)
(* had, without the assignment of line 956                                 *)
startTimerKeepsValue ==
    /\ timerValue' = timerValue
    /\ timerRunning' = TRUE

(* startTimer, lines 954-979: the countdown restarts at its full duration, *)
(* the interval of the held id is cleared and a new one is started.        *)
startTimer ==
    /\ timerValue' = timerDuration
    /\ timerRunning' = TRUE

(* generateQuestion, lines 585-595: the index and the difficulty of the    *)
(* new question                                                            *)
generateQuestionHead ==
    /\ currentQuestion' = currentQuestion + 1
    /\ isAnswered' = FALSE
    /\ difficulty' = DifficultyOf(currentQuestion + 1)

(* generateQuestion, lines 601-606: the question is installed, rendered    *)
(* (renderQuestion, lines 916-924, replaces the answer buttons by four     *)
(* enabled ones) and its countdown started.                                *)
generateQuestionTail ==
    /\ hasQuestion' = TRUE
    /\ buttons' = "enabled"
    /\ startTimer
    /\ resolutions' = 0
    /\ slowNow' = FALSE
    /\ lastCall' = "other"

(* generateQuestion, lines 584-607, run by a pending timeout (lines        *)
(* 482-484, 496-498, 536-538).  The session reads the question only to     *)
(* compare the clicked option with its correctAnswer, so here              *)
(* selectQuestionType and createQuestion (lines 598-599) are not run and   *)
(* the question installed is kept as hasQuestion alone; GenSpec below      *)
(* runs them.                                                              *)
generateQuestion ==
    /\ pendingGen > 0
    /\ pendingGen' = pendingGen - 1
    /\ generateQuestionHead
    /\ generateQuestionTail
    /\ UNCHANGED <<screen, score, streak, correctAnswers, incorrectAnswers,
                   leaked, nextBtnShown, results, history, imperfectUsed,
                   creation, shown>>

(* nextQuestion, line 528: the session is over *)
SessionOver == currentQuestion >= totalQuestions

(* endGame, lines 544-564 *)
endGame ==
    /\ timerRunning' = FALSE
    /\ results' = [score |-> score, correct |-> correctAnswers,
                   incorrect |-> incorrectAnswers,
                   accuracy |-> Accuracy(correctAnswers),
                   message |-> getMotivationMessage(Accuracy(correctAnswers))]
    /\ screen' = "results"

(* nextQuestion, lines 525-531: the click on Next that ends the session *)
nextQuestionEnd ==
    /\ screen = "game"
    /\ nextBtnShown
    /\ SessionOver
    /\ endGame
    /\ lastCall' = "other"
    /\ UNCHANGED <<gameVars, leaked, pendingGen, nextBtnShown, buttons,
                   history, resolutions, slowNow, imperfectUsed, creation,
                   shown>>

(* nextQuestion, lines 525-539: the click on Next that asks for a question *)
nextQuestionAdvance ==
    /\ screen = "game"
    /\ nextBtnShown
    /\ ~SessionOver
    /\ pendingGen < MaxPending
    /\ nextBtnShown' = FALSE
    /\ pendingGen' = pendingGen + 1
    /\ lastCall' = "other"
    /\ UNCHANGED <<screen, gameVars, timerRunning, leaked, buttons, results,
                   history, resolutions, slowNow, imperfectUsed, creation,
                   shown>>

(* showNextButton, lines 1099-1102 *)
showNextButton == nextBtnShown' = TRUE

(* Faulty variant of handleTimeoutGuard: handleTimeout without its early return *)
handleTimeoutGuardOff == FALSE

(* handleTimeout, line 985 *)
handleTimeoutGuard == isAnswered

(* Faulty variant of StreakAfterTimeout: the timeout keeps the streak *)
StreakAfterTimeoutKept == streak

(* handleTimeout, line 992 *)
StreakAfterTimeout == 0

(* handleTimeout, lines 984-1010, for every variable but timerValue.  With *)
(* no current question the handler throws at line 999 or 1006, after the   *)
(* counters are updated and before the Next button is shown.               *)
handleTimeout ==
    IF handleTimeoutGuard
    THEN UNCHANGED <<isAnswered, timerRunning, streak, incorrectAnswers,
                     buttons, nextBtnShown, history, resolutions>>
    ELSE /\ isAnswered' = TRUE
         /\ timerRunning' = FALSE
         /\ streak' = StreakAfterTimeout
         /\ incorrectAnswers' = incorrectAnswers + 1
         /\ history' = Append(history, Entry("timeout", FALSE, 0, 0))
         /\ resolutions' = resolutions + 1
         /\ IF hasQuestion
            THEN /\ buttons' = "disabled"
                 /\ showNextButton
            ELSE UNCHANGED <<buttons, nextBtnShown>>

(* The budget of the exploration lets the step count the current question  *)
Affordable == slowNow \/ imperfectUsed < MaxImperfect

Spend ==
    /\ slowNow' = TRUE
    /\ imperfectUsed' = imperfectUsed + (IF slowNow THEN 0 ELSE 1)

(* The setInterval callback of startTimer, lines 961-978, fired by any     *)
(* running interval: every interval runs the same callback on the current  *)
(* gameState.                                                              *)
tickCallback ==
    /\ timerRunning \/ leaked
    /\ timerValue > -MaxOverrun
    /\ timerValue' = timerValue - 1
    /\ IF timerValue - 1 <= 0
       THEN /\ handleTimeout
            /\ lastCall' = IF isAnswered THEN "handleTimeout (answered)"
                                         ELSE "handleTimeout"
       ELSE /\ lastCall' = "tick"
            /\ UNCHANGED <<isAnswered, timerRunning, streak, incorrectAnswers,
                           buttons, nextBtnShown, history, resolutions>>
    /\ UNCHANGED <<screen, currentQuestion, score, correctAnswers, leaked,
                   hasQuestion, difficulty, pendingGen, results, creation,
                   shown>>

(* A tick the budget of the exploration lets happen *)
tick ==
    /\ Affordable
    /\ Spend
    /\ tickCallback

(* Faulty variant of ScoreAfterCorrect: "=" for the "+=" of line 1068 *)
ScoreOverwritten(points) == points

(* handleCorrectAnswer, line 1068 *)
ScoreAfterCorrect(points) == score + points

(* handleCorrectAnswer, lines 1050-1076 *)
handleCorrectAnswer ==
    /\ streak' = streak + 1
    /\ score' = ScoreAfterCorrect(Points(timerValue, streak + 1))
    /\ correctAnswers' = correctAnswers + 1
    /\ history' = Append(history, Entry("answer", TRUE, timerValue,
                                        Points(timerValue, streak + 1)))
    /\ UNCHANGED incorrectAnswers

(* Faulty variant of StreakAfterIncorrect: the wrong answer keeps the streak *)
StreakAfterIncorrectKept == streak

(* handleIncorrectAnswer, line 1087 *)
StreakAfterIncorrect == 0

(* handleIncorrectAnswer, lines 1082-1094 *)
handleIncorrectAnswer ==
    /\ streak' = StreakAfterIncorrect
    /\ incorrectAnswers' = incorrectAnswers + 1
    /\ history' = Append(history, Entry("answer", FALSE, 0, 0))
    /\ UNCHANGED <<score, correctAnswers>>

(* Faulty variant of handleAnswerGuard: handleAnswer without its early return *)
handleAnswerGuardOff == FALSE

(* handleAnswer, line 1020 *)
handleAnswerGuard == isAnswered

(* handleAnswer, lines 1019-1044; isCorrect is line 1025's comparison of   *)
(* the clicked option with currentQuestionData.correctAnswer.  With no     *)
(* current question that comparison throws, after isAnswered is set.       *)
handleAnswer(isCorrect) ==
    IF handleAnswerGuard
    THEN UNCHANGED <<gameVars, timerRunning, buttons, nextBtnShown, history,
                     resolutions>>
    ELSE /\ isAnswered' = TRUE
         /\ timerRunning' = FALSE
         /\ UNCHANGED <<currentQuestion, timerValue, hasQuestion, difficulty>>
         /\ IF hasQuestion
            THEN /\ buttons' = "disabled"
                 /\ IF isCorrect
                    THEN handleCorrectAnswer
                    ELSE handleIncorrectAnswer
                 /\ resolutions' = resolutions + 1
                 /\ showNextButton
            ELSE UNCHANGED <<score, streak, correctAnswers, incorrectAnswers,
                             buttons, nextBtnShown, history, resolutions>>

(* One run of the click listener of an answer button *)
answerCall(isCorrect) ==
    /\ handleAnswer(isCorrect)
    /\ lastCall' = IF isAnswered THEN "handleAnswer (answered)"
                                 ELSE "handleAnswer"
    /\ UNCHANGED <<screen, leaked, pendingGen, results, creation, shown>>

(* The moments of a countdown at which the exploration lets an answer     *)
(* resolve the question                                                    *)
AnswerMoment == timerValue = timerDuration \/ timerValue <= LateWindow

(* A click on an enabled answer button of the game screen (the listener    *)
(* of line 922).  The handler is also run in the answered state, where it  *)
(* returns at its guard: a second submission.                              *)
answerClick ==
    /\ screen = "game"
    /\ buttons = "enabled" \/ (buttons = "disabled" /\ isAnswered)
    /\ isAnswered \/ ~hasQuestion \/ AnswerMoment
    /\ \E isCorrect \in BOOLEAN :
          /\ answerCall(isCorrect)
          /\ IF isAnswered \/ ~hasQuestion \/ isCorrect
             THEN UNCHANGED <<slowNow, imperfectUsed>>
             ELSE Affordable /\ Spend

Next ==
    \/ startGame
    \/ restartGame
    \/ generateQuestion
    \/ nextQuestionEnd
    \/ nextQuestionAdvance
    \/ tick
    \/ answerClick

Spec == Init /\ [][Next]_vars

----------------------------------------------------------------------------
(* The scoring of one answer as a function of the remaining seconds and    *)
(* the streak: handleAnswer applied once to an open question with any      *)
(* countdown value 0..timerDuration (0 included, as an argument of the     *)
(* scoring formula) and any streak up to MaxStreakIn.                      *)
ScoreInit ==
    /\ screen = "game"
    /\ currentQuestion = 1
    /\ score = 0
    /\ streak \in 0..MaxStreakIn
    /\ correctAnswers = 0
    /\ incorrectAnswers = 0
    /\ timerValue \in 0..timerDuration
    /\ timerRunning = TRUE
    /\ leaked = FALSE
    /\ isAnswered = FALSE
    /\ hasQuestion = TRUE
    /\ difficulty = 1
    /\ pendingGen = 0
    /\ nextBtnShown = FALSE
    /\ buttons = "enabled"
    /\ results = NoResults
    /\ lastCall = "other"
    /\ history = <<>>
    /\ resolutions = 0
    /\ slowNow = FALSE
    /\ imperfectUsed = 0
    /\ creation = NoCreation
    /\ shown = <<>>

scoreAnswer ==
    /\ buttons = "enabled"
    /\ \E isCorrect \in BOOLEAN : answerCall(isCorrect)
    /\ UNCHANGED <<slowNow, imperfectUsed>>

ScoreNext == scoreAnswer

ScoreSpec == ScoreInit /\ [][ScoreNext]_vars

----------------------------------------------------------------------------
(* The motivational message as a function of the accuracy: line 554 of     *)
(* endGame applied to any accuracy of 0..100, on the results screen of a   *)
(* first session whose other texts are left out.                           *)
MessageInit ==
    /\ screen = "results"
    /\ currentQuestion = totalQuestions
    /\ score = 0
    /\ streak = 0
    /\ correctAnswers = 0
    /\ incorrectAnswers = 0
    /\ timerValue = timerDuration
    /\ timerRunning = FALSE
    /\ leaked = FALSE
    /\ isAnswered = TRUE
    /\ hasQuestion = TRUE
    /\ difficulty = DifficultyOf(totalQuestions)
    /\ pendingGen = 0
    /\ nextBtnShown = TRUE
    /\ buttons = "disabled"
    /\ \E accuracy \in 0..100 :
          results = [NoResults EXCEPT !.accuracy = accuracy]
    /\ lastCall = "other"
    /\ history = <<>>
    /\ resolutions = 1
    /\ slowNow = FALSE
    /\ imperfectUsed = 0
    /\ creation = NoCreation
    /\ shown = <<>>

showMotivationMessage ==
    /\ results.message = "none"
    /\ results' = [results EXCEPT
                      !.message = getMotivationMessage(results.accuracy)]
    /\ UNCHANGED <<screen, gameVars, timerRunning, leaked, pendingGen,
                   nextBtnShown, buttons, lastCall, history, resolutions,
                   slowNow, imperfectUsed, creation, shown>>

MessageNext == showMotivationMessage

MessageSpec == MessageInit /\ [][MessageNext]_vars

----------------------------------------------------------------------------
(* ShapeRenderer, lines 8-299: the tables and their accessors *)

(* Object.keys(SHAPES), lines 14-43 and 78-80 *)
getShapeNames ==
    <<"circle", "square", "triangle", "rectangle", "oval", "star", "hexagon">>

(* Object.keys(COLORS), lines 48-58 and 86-88 *)
getColorNames ==
    <<"red", "blue", "yellow", "green", "pink", "orange", "purple", "white",
      "black">>

(* Object.keys(SIZES), lines 63-69 and 94-96 *)
getSizeNames == <<"small", "little", "medium", "large", "big">>

(* SIZES[sizeName].multiplier, lines 63-69, in hundredths *)
SizeMultiplier(sizeName) ==
    CASE sizeName = "small" -> 60
      [] sizeName = "little" -> 50
      [] sizeName = "medium" -> 85
      [] sizeName = "large" -> 110
      [] sizeName = "big" -> 120

(* The elements of an array; Array.prototype.filter is SelectSeq *)
Elements(a) == {a[i] : i \in 1..Len(a)}

(* getShapeDisplayName, lines 121-123, on the displayName of lines 14-43 *)
getShapeDisplayName(shapeName) ==
    CASE shapeName = "circle" -> "Circle"
      [] shapeName = "square" -> "Square"
      [] shapeName = "triangle" -> "Triangle"
      [] shapeName = "rectangle" -> "Rectangle"
      [] shapeName = "oval" -> "Oval"
      [] shapeName = "star" -> "Star"
      [] shapeName = "hexagon" -> "Hexagon"
      [] OTHER -> shapeName

(* getSizeDisplayName, lines 112-114, on the displayName of lines 63-69 *)
getSizeDisplayName(sizeName) ==
    CASE sizeName = "small" -> "Small"
      [] sizeName = "little" -> "Little"
      [] sizeName = "medium" -> "Medium"
      [] sizeName = "large" -> "Large"
      [] sizeName = "big" -> "Big"
      [] OTHER -> sizeName

(* capitalize, lines 1125-1127, on the color names *)
capitalize(str) ==
    CASE str = "red" -> "Red"
      [] str = "blue" -> "Blue"
      [] str = "yellow" -> "Yellow"
      [] str = "green" -> "Green"
      [] str = "pink" -> "Pink"
      [] str = "orange" -> "Orange"
      [] str = "purple" -> "Purple"
      [] str = "white" -> "White"
      [] str = "black" -> "Black"
      [] OTHER -> str

(* Number.prototype.toString of lines 809, 814, 875, 880, on 0..9 *)
toString(n) == <<"0", "1", "2", "3", "4", "5", "6", "7", "8", "9">>[n + 1]

(* The outcomes of the draws: each Math.random() is any number of [0, 1),  *)
(* so Math.floor(Math.random() * n) is any index of 0..n-1.                *)

(* getRandomShape, lines 258-261 *)
getRandomShape == Elements(getShapeNames)

(* Faulty variant of getRandomColor: without the filter of line 268 *)
getRandomColorUnfiltered == Elements(getColorNames)

(* getRandomColor, lines 267-270 *)
getRandomColor ==
    Elements(SelectSeq(getColorNames, LAMBDA c : c # "white" /\ c # "black"))

(* getRandomSize, lines 276-279 *)
getRandomSize == Elements(getSizeNames)

(* shuffleArray, lines 1111-1118: the arrays the loop can leave.  In the   *)
(* pass for index i (1-based here) the element at i is exchanged with the  *)
(* one at any j of 1..i.                                                   *)
Swap(a, i, j) == [a EXCEPT ![i] = a[j], ![j] = a[i]]

RECURSIVE ShufflePasses(_, _)
ShufflePasses(arrays, i) ==
    IF i <= 1 THEN arrays
    ELSE ShufflePasses({Swap(a, i, j) : a \in arrays, j \in 1..i}, i - 1)

shuffleArray(array) == ShufflePasses({array}, Len(array))

(* .sort(() => Math.random() - 0.5) of lines 674, 705, 760, 816, 882: the  *)
(* comparator answers at random, so the order left is any order of the     *)
(* elements.                                                               *)
RECURSIVE Orders(_)
Orders(a) ==
    IF a = <<>> THEN {<<>>}
    ELSE UNION {{<<a[i]>> \o rest :
                    rest \in Orders(SubSeq(a, 1, i - 1)
                                      \o SubSeq(a, i + 1, Len(a)))} :
                i \in 1..Len(a)}

(* .sort(...).slice(0, 3) *)
SortedSlice3(a) == {SubSeq(o, 1, 3) : o \in Orders(a)}

(* Faulty variant of IsOther: the filter lets every candidate pass, the    *)
(* own one included                                                        *)
IsOtherAlways(candidate, own) == TRUE

(* The test of the filters of lines 672, 703, 758, 814, 880 *)
IsOther(candidate, own) == candidate # own

(* names.filter(s => s !== own) *)
Others(names, own) == SelectSeq(names, LAMBDA s : IsOther(s, own))

(* The options of a question, lines 674-677, 705-708, 760-763, 816-818,    *)
(* 882-884: the correct answer and the first three of the wrong ones in a  *)
(* random order, shuffled                                                  *)
Options(correctAnswer, wrong) ==
    UNION {shuffleArray(<<correctAnswer>> \o wrongAnswers) :
              wrongAnswers \in SortedSlice3(wrong)}

(* The numbers lo..hi in order, the loops of lines 813-815, 879-881 *)
Numbers(lo, hi) == [i \in 1..(hi - lo + 1) |-> lo + i - 1]

(* names.map(s => ShapeRenderer.getShapeDisplayName(s)), lines 673 *)
ShapeDisplayNames(names) ==
    [i \in 1..Len(names) |-> getShapeDisplayName(names[i])]

(* names.map(s => ShapeRenderer.getSizeDisplayName(s)), line 704 *)
SizeDisplayNames(names) ==
    [i \in 1..Len(names) |-> getSizeDisplayName(names[i])]

(* names.map(c => capitalize(c)), line 759 *)
Capitalized(names) == [i \in 1..Len(names) |-> capitalize(names[i])]

(* The strings of the numbers pushed by lines 814, 880 *)
Strings(numbers) == [i \in 1..Len(numbers) |-> toString(numbers[i])]

(* QUESTION_TYPES, lines 330-336 *)
SHAPE_IDENTIFICATION == "shape_identification"
SIZE_RECOGNITION == "size_recognition"
COLOR_SHAPE == "color_shape"
COUNTING_COLOR == "counting_color"
LOGICAL_CHALLENGE == "logical_challenge"

(* Faulty variant of selectQuestionType: without the branch of lines       *)
(* 621-625, the medium questions fall through to the hard types            *)
selectQuestionTypeNoMedium(d) ==
    IF d = 1 THEN {SHAPE_IDENTIFICATION, SIZE_RECOGNITION}
    ELSE {COLOR_SHAPE, COUNTING_COLOR, LOGICAL_CHALLENGE}

(* selectQuestionType, lines 613-635, on gameState.difficulty = d: the     *)
(* types it can return                                                     *)
selectQuestionType(d) ==
    IF d = 1 THEN {SHAPE_IDENTIFICATION, SIZE_RECOGNITION}
    ELSE IF d = 2 THEN {COLOR_SHAPE, COUNTING_COLOR}
    ELSE {COLOR_SHAPE, COUNTING_COLOR, LOGICAL_CHALLENGE}

(* Is the figure one the question asks about: the figure shown (lines 667, *)
(* 698), the figure of the target shape and color (line 767), a figure of  *)
(* the target color (line 822), a figure of the target size and color      *)
(* (line 890)                                                              *)
Asked(c, fig) ==
    CASE c.type = COLOR_SHAPE -> fig.shape = c.shape /\ fig.color = c.color
      [] c.type = COUNTING_COLOR -> fig.color = c.color
      [] c.type = LOGICAL_CHALLENGE -> fig.size = c.size /\ fig.color = c.color
      [] OTHER -> TRUE

(* shapes.push(fig) in a loop of a creator, as a target or a distractor *)
Push(c, fig, r) ==
    [c EXCEPT !.figure = fig, !.role = r,
              !.asked = Append(c.asked, Asked(c, fig))]

(* The questions whose creators are run: the creators read nothing of      *)
(* gameState, so they are run for the first question of the easy band and  *)
(* the first of the hard band, whose types are all five.                   *)
CreatedAt == {1, 15}

(* generateQuestion, lines 584-598, up to the return of selectQuestionType *)
selectType ==
    /\ creation.at = "idle"
    /\ pendingGen > 0
    /\ generateQuestionHead
    /\ \E t \in selectQuestionType(DifficultyOf(currentQuestion + 1)) :
          creation' = [NoCreation EXCEPT !.at = "typed", !.type = t]
    /\ UNCHANGED <<screen, score, streak, correctAnswers, incorrectAnswers,
                   timerValue, timerRunning, leaked, hasQuestion, pendingGen,
                   nextBtnShown, buttons, results, lastCall, history,
                   resolutions, slowNow, imperfectUsed, shown>>

(* What a step inside createQuestion leaves alone *)
InCreation ==
    /\ currentQuestion \in CreatedAt
    /\ UNCHANGED <<screen, gameVars, timerRunning, leaked, pendingGen,
                   nextBtnShown, buttons, results, lastCall, history,
                   resolutions, slowNow, imperfectUsed, shown>>

(* createShapeIdentificationQuestion, lines 662-668 and 685: the figure    *)
(* and the correct answer                                                  *)
createShapeIdentificationQuestion ==
    /\ creation.at = "typed"
    /\ creation.type = SHAPE_IDENTIFICATION
    /\ \E shape \in getRandomShape, color \in getRandomColor,
          size \in getRandomSize :
          creation' =
             [Push([creation EXCEPT !.shape = shape, !.color = color,
                                    !.size = size],
                   Figure(shape, color, size), "target")
                EXCEPT !.at = "answered",
                       !.correctAnswer = getShapeDisplayName(shape),
                       !.highlightIndex = 0]
    /\ InCreation

(* Faulty variant of SizeAnswer: the name of the size as it is in SIZES *)
SizeAnswerRaw(size) == size

(* createSizeRecognitionQuestion, line 699 *)
SizeAnswer(size) == getSizeDisplayName(size)

(* createSizeRecognitionQuestion, lines 693-699 and 716 *)
createSizeRecognitionQuestion ==
    /\ creation.at = "typed"
    /\ creation.type = SIZE_RECOGNITION
    /\ \E shape \in getRandomShape, color \in getRandomColor,
          size \in getRandomSize :
          creation' =
             [Push([creation EXCEPT !.shape = shape, !.color = color,
                                    !.size = size],
                   Figure(shape, color, size), "target")
                EXCEPT !.at = "answered",
                       !.correctAnswer = SizeAnswer(size),
                       !.highlightIndex = 0]
    /\ InCreation

(* The end of a pass of a loop of a creator: the figure it pushed is a     *)
(* constant of the pass (lines 741, 797, 855-856) and out of scope after   *)
(* it.                                                                     *)
endOfPass ==
    /\ creation.at \in {"targets", "distractors"}
    /\ creation.figure # NoFigure
    /\ creation' = [creation EXCEPT !.figure = NoFigure, !.role = "none"]
    /\ InCreation

(* Faulty variant of ColorShapeRetry: the first draw is always taken *)
ColorShapeRetryNever(c, distShape, distColor) == FALSE

(* createColorShapeQuestion, line 745: the draw is made again *)
ColorShapeRetry(c, distShape, distColor) ==
    distShape = c.shape /\ distColor = c.color

(* createColorShapeQuestion, lines 725-737: the target and the number of   *)
(* figures                                                                 *)
colorShapeTarget ==
    /\ creation.at = "typed"
    /\ creation.type = COLOR_SHAPE
    /\ \E targetShape \in getRandomShape, targetColor \in getRandomColor,
          numShapes \in 3..5, size \in getRandomSize :
          creation' =
             [Push([creation EXCEPT !.shape = targetShape,
                                    !.color = targetColor,
                                    !.numShapes = numShapes],
                   Figure(targetShape, targetColor, size), "target")
                EXCEPT !.at = "distractors"]
    /\ InCreation

(* createColorShapeQuestion, lines 740-752: one pass of the loop; the      *)
(* do-while ends with a draw that is not retried                           *)
colorShapeDistractor ==
    /\ creation.at = "distractors"
    /\ creation.type = COLOR_SHAPE
    /\ creation.figure = NoFigure
    /\ Len(creation.asked) < creation.numShapes
    /\ \E distShape \in getRandomShape, distColor \in getRandomColor,
          size \in getRandomSize :
          /\ ~ColorShapeRetry(creation, distShape, distColor)
          /\ creation' = Push(creation, Figure(distShape, distColor, size),
                              "distractor")
    /\ InCreation

(* createColorShapeQuestion, lines 740, 754 and 771: the loop is left *)
colorShapeAnswer ==
    /\ creation.at = "distractors"
    /\ creation.type = COLOR_SHAPE
    /\ creation.figure = NoFigure
    /\ Len(creation.asked) >= creation.numShapes
    /\ creation' = [creation EXCEPT !.at = "answered",
                                    !.correctAnswer = capitalize(creation.color),
                                    !.highlightIndex = -1]
    /\ InCreation

(* createCountingColorQuestion, lines 780-783 *)
countingColorStart ==
    /\ creation.at = "typed"
    /\ creation.type = COUNTING_COLOR
    /\ \E targetColor \in getRandomColor, targetCount \in 2..5 :
          creation' = [creation EXCEPT !.at = "targets",
                                       !.color = targetColor,
                                       !.targetCount = targetCount]
    /\ InCreation

(* createCountingColorQuestion, lines 786-792: one pass of the loop *)
countingColorTarget ==
    /\ creation.at = "targets"
    /\ creation.type = COUNTING_COLOR
    /\ creation.figure = NoFigure
    /\ Len(creation.asked) < creation.targetCount
    /\ \E shape \in getRandomShape, size \in getRandomSize :
          creation' = Push(creation, Figure(shape, creation.color, size),
                           "target")
    /\ InCreation

(* createCountingColorQuestion, lines 786 and 795: the loop is left and    *)
(* the number of distractors drawn                                         *)
countingColorDistractorCount ==
    /\ creation.at = "targets"
    /\ creation.type = COUNTING_COLOR
    /\ creation.figure = NoFigure
    /\ Len(creation.asked) >= creation.targetCount
    /\ \E distractorCount \in 3..6 :
          creation' = [creation EXCEPT !.at = "distractors",
                                       !.distractorCount = distractorCount]
    /\ InCreation

(* Faulty variant of CountingColorRetry: the first draw is always taken *)
CountingColorRetryNever(c, distColor) == FALSE

(* createCountingColorQuestion, line 800: the draw is made again *)
CountingColorRetry(c, distColor) == distColor = c.color

(* createCountingColorQuestion, lines 796-807: one pass of the loop *)
countingColorDistractor ==
    /\ creation.at = "distractors"
    /\ creation.type = COUNTING_COLOR
    /\ creation.figure = NoFigure
    /\ Len(creation.asked) < creation.targetCount + creation.distractorCount
    /\ \E shape \in getRandomShape, distColor \in getRandomColor,
          size \in getRandomSize :
          /\ ~CountingColorRetry(creation, distColor)
          /\ creation' = Push(creation, Figure(shape, distColor, size),
                              "distractor")
    /\ InCreation

(* createCountingColorQuestion, lines 796, 809 and 826: the loop is left *)
countingColorAnswer ==
    /\ creation.at = "distractors"
    /\ creation.type = COUNTING_COLOR
    /\ creation.figure = NoFigure
    /\ Len(creation.asked) >= creation.targetCount + creation.distractorCount
    /\ creation' = [creation EXCEPT !.at = "answered",
                                    !.correctAnswer =
                                        toString(creation.targetCount),
                                    !.highlightIndex = -1]
    /\ InCreation

(* createLogicalChallengeQuestion, lines 835-839 *)
logicalChallengeStart ==
    /\ creation.at = "typed"
    /\ creation.type = LOGICAL_CHALLENGE
    /\ \E targetSize \in getRandomSize, targetColor \in getRandomColor,
          targetCount \in 1..3 :
          creation' = [creation EXCEPT !.at = "targets",
                                       !.size = targetSize,
                                       !.color = targetColor,
                                       !.targetCount = targetCount]
    /\ InCreation

(* createLogicalChallengeQuestion, lines 842-848: one pass of the loop *)
logicalChallengeTarget ==
    /\ creation.at = "targets"
    /\ creation.type = LOGICAL_CHALLENGE
    /\ creation.figure = NoFigure
    /\ Len(creation.asked) < creation.targetCount
    /\ \E shape \in getRandomShape :
          creation' = Push(creation,
                           Figure(shape, creation.color, creation.size),
                           "target")
    /\ InCreation

(* createLogicalChallengeQuestion, lines 842 and 851: the loop is left and *)
(* the number of distractors drawn                                         *)
logicalChallengeDistractorCount ==
    /\ creation.at = "targets"
    /\ creation.type = LOGICAL_CHALLENGE
    /\ creation.figure = NoFigure
    /\ Len(creation.asked) >= creation.targetCount
    /\ \E distractorCount \in 4..6 :
          creation' = [creation EXCEPT !.at = "distractors",
                                       !.distractorCount = distractorCount]
    /\ InCreation

(* Faulty variant of LogicalSizeRetry: the first draw is always taken *)
LogicalSizeRetryNever(c, distSize) == FALSE

(* createLogicalChallengeQuestion, line 861: the draw is made again *)
LogicalSizeRetry(c, distSize) == distSize = c.size

(* createLogicalChallengeQuestion, line 865: the draw is made again *)
LogicalColorRetry(c, distColor) == distColor = c.color

(* createLogicalChallengeQuestion, lines 852-873: one pass of the loop *)
logicalChallengeDistractor ==
    /\ creation.at = "distractors"
    /\ creation.type = LOGICAL_CHALLENGE
    /\ creation.figure = NoFigure
    /\ Len(creation.asked) < creation.targetCount + creation.distractorCount
    /\ \E useWrongSize \in BOOLEAN, shape \in getRandomShape :
          IF useWrongSize
          THEN \E distSize \in getRandomSize :
                  /\ ~LogicalSizeRetry(creation, distSize)
                  /\ creation' = Push(creation,
                                      Figure(shape, creation.color, distSize),
                                      "distractor")
          ELSE \E distColor \in getRandomColor :
                  /\ ~LogicalColorRetry(creation, distColor)
                  /\ creation' = Push(creation,
                                      Figure(shape, distColor, creation.size),
                                      "distractor")
    /\ InCreation

(* createLogicalChallengeQuestion, lines 852, 875 and 894: the loop is     *)
(* left                                                                    *)
logicalChallengeAnswer ==
    /\ creation.at = "distractors"
    /\ creation.type = LOGICAL_CHALLENGE
    /\ creation.figure = NoFigure
    /\ Len(creation.asked) >= creation.targetCount + creation.distractorCount
    /\ creation' = [creation EXCEPT !.at = "answered",
                                    !.correctAnswer =
                                        toString(creation.targetCount),
                                    !.highlightIndex = -1]
    /\ InCreation

(* The wrong answers a creator chooses from, in the order of lines         *)
(* 671-673, 702-704, 757-759, 812-815, 878-881                             *)
WrongCandidates(c) ==
    CASE c.type = SHAPE_IDENTIFICATION ->
            ShapeDisplayNames(Others(getShapeNames, c.shape))
      [] c.type = SIZE_RECOGNITION ->
            SizeDisplayNames(Others(getSizeNames, c.size))
      [] c.type = COLOR_SHAPE ->
            Capitalized(SelectSeq(getColorNames,
                                  LAMBDA x : IsOther(x, c.color)
                                                /\ x # "white"
                                                /\ x # "black"))
      [] c.type = COUNTING_COLOR ->
            Strings(Others(Numbers(1, 6), c.targetCount))
      [] c.type = LOGICAL_CHALLENGE ->
            Strings(Others(Numbers(0, 5), c.targetCount))

(* generateQuestion, lines 601-606, after createQuestion has returned *)
Installed ==
    /\ currentQuestion \in CreatedAt
    /\ pendingGen' = pendingGen - 1
    /\ generateQuestionTail
    /\ UNCHANGED <<screen, currentQuestion, score, streak, correctAnswers,
                   incorrectAnswers, isAnswered, difficulty, leaked,
                   nextBtnShown, results, history, imperfectUsed, shown>>

(* A question has more values than can be listed (a display has up to 11   *)
(* figures), and its options and the order of its display are computed     *)
(* from the constants of the creator independently of one another.  So a   *)
(* run ends in one of two ways: with the options of the question, the      *)
(* display left in the order of its loops, or with the display shuffled,   *)
(* the options left out.                                                   *)

(* The options of the question: lines 671-677, 702-708, 757-763, 812-818,  *)
(* 878-884                                                                 *)
returnOptions ==
    /\ creation.at = "answered"
    /\ \E options \in Options(creation.correctAnswer,
                              WrongCandidates(creation)) :
          creation' = [creation EXCEPT !.at = "options", !.options = options]
    /\ Installed

(* shapes: shuffleArray(shapes), lines 768, 823, 891 *)
returnShapes ==
    /\ creation.at = "answered"
    /\ creation.type \in {COLOR_SHAPE, COUNTING_COLOR, LOGICAL_CHALLENGE}
    /\ \E shapes \in shuffleArray(creation.asked) :
          creation' = [creation EXCEPT !.at = "shapes", !.asked = shapes]
    /\ Installed

(* The session before a question is generated: Next was clicked (or Start, *)
(* for question 1) after currentQuestion questions, each answered          *)
(* correctly at full time.                                                 *)
GenInit ==
    /\ currentQuestion \in 0..(totalQuestions - 1)
    /\ screen = "game"
    /\ history = [k \in 1..currentQuestion |->
                     Entry("answer", TRUE, timerDuration,
                           Points(timerDuration, k))]
    /\ score = SumPoints(history)
    /\ streak = currentQuestion
    /\ correctAnswers = currentQuestion
    /\ incorrectAnswers = 0
    /\ timerValue = timerDuration
    /\ timerRunning = FALSE
    /\ leaked = FALSE
    /\ isAnswered = (currentQuestion > 0)
    /\ hasQuestion = (currentQuestion > 0)
    /\ difficulty = DifficultyOf(currentQuestion)
    /\ pendingGen = 1
    /\ nextBtnShown = FALSE
    /\ buttons = IF currentQuestion > 0 THEN "disabled" ELSE "none"
    /\ results = NoResults
    /\ lastCall = "other"
    /\ resolutions = IF currentQuestion > 0 THEN 1 ELSE 0
    /\ slowNow = FALSE
    /\ imperfectUsed = 0
    /\ creation = NoCreation
    /\ shown = <<>>

GenNext ==
    \/ selectType
    \/ createShapeIdentificationQuestion
    \/ createSizeRecognitionQuestion
    \/ endOfPass
    \/ colorShapeTarget
    \/ colorShapeDistractor
    \/ colorShapeAnswer
    \/ countingColorStart
    \/ countingColorTarget
    \/ countingColorDistractorCount
    \/ countingColorDistractor
    \/ countingColorAnswer
    \/ logicalChallengeStart
    \/ logicalChallengeTarget
    \/ logicalChallengeDistractorCount
    \/ logicalChallengeDistractor
    \/ logicalChallengeAnswer
    \/ returnOptions
    \/ returnShapes

GenSpec == GenInit /\ [][GenNext]_vars

----------------------------------------------------------------------------
(* The click on one of the four answer buttons of a question.  The         *)
(* question is kept as the constant its answer is computed from, its       *)
(* correctAnswer and its options, the display left out; it is question 1   *)
(* or question 15 of a session answered correctly at full time so far.     *)

(* correctAnswer of a question, lines 668, 699, 754, 809, 875 *)
CorrectAnswerOf(c) ==
    CASE c.type = SHAPE_IDENTIFICATION -> getShapeDisplayName(c.shape)
      [] c.type = SIZE_RECOGNITION -> SizeAnswer(c.size)
      [] c.type = COLOR_SHAPE -> capitalize(c.color)
      [] c.type = COUNTING_COLOR -> toString(c.targetCount)
      [] c.type = LOGICAL_CHALLENGE -> toString(c.targetCount)

(* The constant of a creator that its answer is computed from: lines 663,  *)
(* 696, 726, 781, 837                                                      *)
Answerable(t) ==
    CASE t = SHAPE_IDENTIFICATION ->
            {[NoCreation EXCEPT !.type = t, !.shape = shape] :
                shape \in getRandomShape}
      [] t = SIZE_RECOGNITION ->
            {[NoCreation EXCEPT !.type = t, !.size = size] :
                size \in getRandomSize}
      [] t = COLOR_SHAPE ->
            {[NoCreation EXCEPT !.type = t, !.color = color] :
                color \in getRandomColor}
      [] t = COUNTING_COLOR ->
            {[NoCreation EXCEPT !.type = t, !.targetCount = targetCount] :
                targetCount \in 2..5}
      [] t = LOGICAL_CHALLENGE ->
            {[NoCreation EXCEPT !.type = t, !.targetCount = targetCount] :
                targetCount \in 1..3}

AnswerInit ==
    /\ currentQuestion \in CreatedAt
    /\ screen = "game"
    /\ history = [k \in 1..(currentQuestion - 1) |->
                     Entry("answer", TRUE, timerDuration,
                           Points(timerDuration, k))]
    /\ score = SumPoints(history)
    /\ streak = currentQuestion - 1
    /\ correctAnswers = currentQuestion - 1
    /\ incorrectAnswers = 0
    /\ timerValue = timerDuration
    /\ timerRunning = TRUE
    /\ leaked = FALSE
    /\ isAnswered = FALSE
    /\ hasQuestion = TRUE
    /\ difficulty = DifficultyOf(currentQuestion)
    /\ pendingGen = 0
    /\ nextBtnShown = FALSE
    /\ buttons = "enabled"
    /\ results = NoResults
    /\ lastCall = "other"
    /\ resolutions = 0
    /\ slowNow = FALSE
    /\ imperfectUsed = 0
    /\ \E t \in selectQuestionType(difficulty) :
          \E c \in Answerable(t) :
             \E options \in Options(CorrectAnswerOf(c), WrongCandidates(c)) :
                creation = [c EXCEPT !.at = "options",
                                     !.correctAnswer = CorrectAnswerOf(c),
                                     !.options = options]
    /\ shown = <<>>

(* Faulty variant of IsCorrectAnswer: every option is taken as correct *)
IsCorrectAnswerAlways(answer, c) == TRUE

(* handleAnswer, line 1025 *)
IsCorrectAnswer(answer, c) == answer = c.correctAnswer

(* The listener of an answer button, line 922: handleAnswer(option, btn)   *)
(* with the option the button was rendered for                             *)
clickOption ==
    /\ screen = "game"
    /\ buttons = "enabled"
    /\ creation.at = "options"
    /\ \E i \in 1..Len(creation.options) :
          /\ handleAnswer(IsCorrectAnswer(creation.options[i], creation))
          /\ creation' = [creation EXCEPT !.clicked = creation.options[i]]
    /\ lastCall' = IF isAnswered THEN "handleAnswer (answered)"
                                 ELSE "handleAnswer"
    /\ UNCHANGED <<screen, leaked, pendingGen, results, slowNow,
                   imperfectUsed, shown>>

AnswerNext == clickOption

AnswerSpec == AnswerInit /\ [][AnswerNext]_vars

----------------------------------------------------------------------------
(* The first questions of a session, one after the other.  They are of the *)
(* easy band, whose two types show one figure; a question is kept as its   *)
(* type and its display, the options left out, and `shown' lists the       *)
(* questions generated so far.  The countdown is left out: an answer is    *)
(* clicked at full time.                                                   *)

(* The type and the display of a question *)
Combination(c) == <<c.type, <<c.figure>>>>

(* The session after the click on Start *)
RepeatInit ==
    /\ screen = "game"
    /\ currentQuestion = 0
    /\ score = 0
    /\ streak = 0
    /\ correctAnswers = 0
    /\ incorrectAnswers = 0
    /\ timerValue = timerDuration
    /\ timerRunning = FALSE
    /\ leaked = FALSE
    /\ isAnswered = FALSE
    /\ hasQuestion = FALSE
    /\ difficulty = 1
    /\ pendingGen = 1
    /\ nextBtnShown = FALSE
    /\ buttons = "none"
    /\ results = NoResults
    /\ lastCall = "other"
    /\ history = <<>>
    /\ resolutions = 0
    /\ slowNow = FALSE
    /\ imperfectUsed = 0
    /\ creation = NoCreation
    /\ shown = <<>>

(* generateQuestion, lines 584-607, for a question of the easy band:       *)
(* selectQuestionType (line 598), then createShapeIdentificationQuestion   *)
(* or createSizeRecognitionQuestion (lines 662-668 and 685, 693-699 and    *)
(* 716).  Nothing of gameState.usedCombinations is read or written.        *)
generateEasyQuestion ==
    /\ pendingGen > 0
    /\ Len(shown) < MaxShown
    /\ pendingGen' = pendingGen - 1
    /\ generateQuestionHead
    /\ \E t \in selectQuestionType(DifficultyOf(currentQuestion + 1)),
          shape \in getRandomShape, color \in getRandomColor,
          size \in getRandomSize :
          /\ t \in {SHAPE_IDENTIFICATION, SIZE_RECOGNITION}
          /\ creation' =
                [Push([NoCreation EXCEPT !.type = t, !.shape = shape,
                                         !.color = color, !.size = size],
                      Figure(shape, color, size), "target")
                   EXCEPT !.at = "shapes",
                          !.correctAnswer =
                              IF t = SHAPE_IDENTIFICATION
                              THEN getShapeDisplayName(shape)
                              ELSE SizeAnswer(size),
                          !.highlightIndex = 0]
    /\ shown' = Append(shown, Combination(creation'))
    /\ generateQuestionTail
    /\ UNCHANGED <<screen, score, streak, correctAnswers, incorrectAnswers,
                   leaked, nextBtnShown, results, history, imperfectUsed>>

(* The click on an answer button and the click on Next, while a question   *)
(* is still to be generated                                                *)
answerShown == Len(shown) < MaxShown /\ answerClick

nextShown == Len(shown) < MaxShown /\ nextQuestionAdvance

RepeatNext ==
    \/ generateEasyQuestion
    \/ answerShown
    \/ nextShown

RepeatSpec == RepeatInit /\ [][RepeatNext]_vars

----------------------------------------------------------------------------
(* The session under the scheduling of the browser and a player who        *)
(* clicks Next whenever it is shown.  A running interval goes on firing    *)
(* (setInterval, line 961), a pending timeout fires (setTimeout, lines     *)
(* 482, 496, 536), and the click on Next comes while the button stays      *)
(* shown on the game screen; Start, Play again and the answers are the     *)
(* player's to give or not.  The countdown is not bounded by the budget    *)
(* of the exploration here: the budget bounds the questions of a run that  *)
(* are answered, all others run into their timeout.                        *)

(* The setInterval callback, fired by a running interval *)
liveTick ==
    /\ tickCallback
    /\ UNCHANGED <<slowNow, imperfectUsed>>

(* A click on an answer button of an open question *)
liveAnswer ==
    /\ screen = "game"
    /\ buttons = "enabled"
    /\ hasQuestion
    /\ ~isAnswered
    /\ AnswerMoment
    /\ Affordable
    /\ Spend
    /\ \E isCorrect \in BOOLEAN : answerCall(isCorrect)

LiveNext ==
    \/ startGame
    \/ restartGame
    \/ generateQuestion
    \/ nextQuestionEnd
    \/ nextQuestionAdvance
    \/ liveTick
    \/ liveAnswer

LiveSpec ==
    /\ Init
    /\ [][LiveNext]_vars
    /\ WF_vars(liveTick)
    /\ WF_vars(generateQuestion)
    /\ WF_vars(nextQuestionAdvance)
    /\ WF_vars(nextQuestionEnd)

----------------------------------------------------------------------------
(* The counters the scoring of a resolution writes *)
counters == <<score, streak, correctAnswers, incorrectAnswers>>

Last(h) == h[Len(h)]

(* C1: a call of handleAnswer made while isAnswered is already true leaves *)
(* score, streak, correctAnswers and incorrectAnswers unchanged, whatever  *)
(* option is passed.                                                       *)
C1_SecondSubmissionIgnored ==
    [][(isAnswered /\ lastCall' = "handleAnswer (answered)")
          => UNCHANGED counters]_vars

(* C1 witness: a second submission on a question an answer has resolved *)
C1_Witness ==
    /\ lastCall = "handleAnswer (answered)"
    /\ hasQuestion
    /\ history # <<>>
    /\ Last(history).by = "answer"

(* C2: each question is resolved at most once, by the answer or by the     *)
(* timeout: once it is resolved it counts exactly one resolution, and a    *)
(* timeout or an answer that arrives afterwards changes none of score,     *)
(* streak, correctAnswers, incorrectAnswers.                               *)
C2_ResolvedExactlyOnce ==
    /\ []((hasQuestion /\ isAnswered) => resolutions = 1)
    /\ [][(isAnswered /\ lastCall' \in {"handleAnswer (answered)",
                                        "handleTimeout (answered)"})
             => UNCHANGED counters]_vars

(* C2 witness: the countdown reaches zero on a question an answer has      *)
(* already resolved                                                        *)
C2_Witness ==
    /\ lastCall = "handleTimeout (answered)"
    /\ hasQuestion
    /\ resolutions = 1
    /\ Last(history).by = "answer"

C4_NoTickWhileResolved ==
    ~(hasQuestion /\ isAnswered
        /\ lastCall \in {"tick", "handleTimeout (answered)"})

(* C5: in every reachable state at most one countdown interval is         *)
(* running: never an interval under the held id together with one whose   *)
(* id was dropped.                                                         *)
C5_AtMostOneCountdown == ~(timerRunning /\ leaked)

(* b is Math.round(n / d): the integer nearest to n / d, halves up *)
IsRounded(b, n, d) == (2 * b - 1) * d <= 2 * n /\ 2 * n < (2 * b + 1) * d

(* C6: a correct answer with r seconds remaining and streak s before it    *)
(* makes the streak s + 1 and adds exactly                                 *)
(* 10 + round(r / 15 * 30) + (0 if s + 1 < 2 else 5 * s) to the score; 40  *)
(* for r = 15, s = 0 and 15 for r = 0, s = 1.                              *)
C6_CorrectAnswerPoints ==
    [][(correctAnswers' = correctAnswers + 1) =>
          /\ streak' = streak + 1
          /\ \E b \in 0..30 :
                /\ IsRounded(b, timerValue * 30, 15)
                /\ score' = score + 10 + b
                                  + (IF streak + 1 < 2 THEN 0 ELSE 5 * streak)
          /\ (timerValue = 15 /\ streak = 0) => (score' = score + 40)
          /\ (timerValue = 0 /\ streak = 1) => (score' = score + 15)]_vars

(* C6 witness: the answer with no second left on a streak of 1 was scored *)
C6_Witness ==
    /\ history # <<>>
    /\ Last(history).correct
    /\ Last(history).remaining = 0
    /\ streak = 2
    /\ score = 15

(* C7: an incorrect answer and a timeout each leave score and              *)
(* correctAnswers unchanged, set streak to 0 and add exactly 1 to          *)
(* incorrectAnswers, whatever the streak was.                              *)
C7_MissScoresNothing ==
    [][(Len(history') = Len(history) + 1 /\ ~Last(history').correct) =>
          /\ score' = score
          /\ correctAnswers' = correctAnswers
          /\ streak' = 0
          /\ incorrectAnswers' = incorrectAnswers + 1]_vars

(* C7 witness: a timeout ended a streak of at least 2 *)
C7_Witness ==
    /\ Len(history) >= 3
    /\ Last(history).by = "timeout"
    /\ history[Len(history) - 1].correct
    /\ history[Len(history) - 2].correct
    /\ streak = 0
    /\ score > 0

(* C8: within a session the score is a non-negative integer, equals the    *)
(* sum of the points awarded to the questions resolved so far, and never   *)
(* decreases from one step to the next (start and play-again begin a new   *)
(* session).                                                               *)
C8_ScoreIsMonotoneSum ==
    /\ [](score \in Nat /\ score = SumPoints(history))
    /\ [][currentQuestion' = 0 \/ score' >= score]_vars

(* C8 witness: points were awarded on both sides of a miss *)
C8_Witness ==
    /\ Len(history) >= 3
    /\ history[1].correct
    /\ ~history[2].correct
    /\ history[3].correct
    /\ score = history[1].points + history[3].points

(* C9: streak is the number of consecutive correct answers at the end of   *)
(* the resolved questions of the session, 0 after a miss or before the     *)
(* first resolution.                                                       *)
C9_StreakIsTrailingRun == streak = TrailingCorrect(history)

(* C9 witness: a streak built up again after a miss *)
C9_Witness ==
    /\ Len(history) >= 4
    /\ ~history[Len(history) - 2].correct
    /\ history[Len(history) - 1].correct
    /\ Last(history).correct
    /\ streak = 2

(* The session resolved exactly totalQuestions questions, each by a        *)
(* correct answer given with the full 15 seconds remaining                 *)
PerfectSession ==
    /\ Len(history) = 20
    /\ \A k \in 1..20 : history[k].correct /\ history[k].remaining = 15

(* C10: a session of 20 questions all answered correctly with 15 seconds   *)
(* remaining ends with score 1750 (question k awards 40 + 5 * (k - 1)),    *)
(* correctAnswers 20, incorrectAnswers 0 and accuracy 100.                 *)
C10_PerfectSessionTotals ==
    (screen = "results" /\ PerfectSession) =>
        /\ \A k \in 1..20 : history[k].points = 40 + 5 * (k - 1)
        /\ results.score = 1750
        /\ results.correct = 20
        /\ results.incorrect = 0
        /\ results.accuracy = 100

(* C10 witness: the results of a perfect session of 20 questions *)
C10_Witness ==
    /\ screen = "results"
    /\ PerfectSession
    /\ currentQuestion = 20
    /\ results.score = 1750

(* A step of the click listener of the Next button (line 449): the only    *)
(* steps taken on the game screen with the button shown that run neither   *)
(* an answer or countdown handler nor a pending generateQuestion.          *)
NextClicked ==
    /\ screen = "game"
    /\ nextBtnShown
    /\ lastCall' = "other"
    /\ pendingGen' >= pendingGen

(* C11: advancing while currentQuestion is below totalQuestions (the click *)
(* on Next that asks for a question, and the generateQuestion it           *)
(* schedules) increments currentQuestion by exactly 1, installs a new      *)
(* current question, sets isAnswered to false and timerValue to 15 and     *)
(* starts the countdown; it changes none of score, streak, correctAnswers, *)
(* incorrectAnswers.                                                       *)
C11_AdvanceInstallsNextQuestion ==
    /\ [][(NextClicked /\ currentQuestion < totalQuestions) =>
             /\ pendingGen' = pendingGen + 1
             /\ screen' = "game"
             /\ UNCHANGED gameVars]_vars
    /\ [][(pendingGen' = pendingGen - 1) =>
             /\ currentQuestion' = currentQuestion + 1
             /\ hasQuestion'
             /\ ~isAnswered'
             /\ timerValue' = 15
             /\ timerRunning'
             /\ UNCHANGED counters]_vars

(* C11 witness: question 2 was installed after question 1 was answered     *)
(* with one second left: the countdown is back at 15 and the points of     *)
(* question 1 are kept                                                     *)
C11_Witness ==
    /\ currentQuestion = 2
    /\ hasQuestion
    /\ ~isAnswered
    /\ timerRunning
    /\ timerValue = 15
    /\ Len(history) = 1
    /\ history[1].correct
    /\ history[1].remaining = 1
    /\ score = history[1].points

(* C12: advancing when currentQuestion equals totalQuestions generates no  *)
(* further question and moves the session to the results screen, whose     *)
(* reported accuracy is round(correctAnswers / totalQuestions * 100) and   *)
(* whose reported score and counts are the session's final values.         *)
C12_LastAdvanceShowsResults ==
    /\ [](screen = "results" =>
             IsRounded(results.accuracy, results.correct * 100, 20))
    /\ [][(NextClicked /\ currentQuestion = totalQuestions) =>
             /\ screen' = "results"
             /\ pendingGen' = pendingGen
             /\ UNCHANGED gameVars
             /\ results'.score = score
             /\ results'.correct = correctAnswers
             /\ results'.incorrect = incorrectAnswers
             /\ IsRounded(results'.accuracy, correctAnswers * 100, 20)]_vars

(* C12 witness: the results of a session with 19 correct answers and one   *)
(* miss                                                                    *)
C12_Witness ==
    /\ screen = "results"
    /\ currentQuestion = 20
    /\ correctAnswers = 19
    /\ incorrectAnswers = 1
    /\ results.correct = 19
    /\ results.incorrect = 1
    /\ results.accuracy = 95
    /\ results.score = score

(* C13: start and play-again reset the whole session state: immediately    *)
(* after either, currentQuestion, score, streak, correctAnswers and        *)
(* incorrectAnswers are all 0, isAnswered is false and there is no current *)
(* question, and the next question generated is question 1; nothing of the *)
(* previous session's totals survives.                                     *)
C13_StartResetsSession ==
    /\ [][(screen # "game" /\ screen' = "game") =>
             /\ currentQuestion' = 0
             /\ score' = 0
             /\ streak' = 0
             /\ correctAnswers' = 0
             /\ incorrectAnswers' = 0
             /\ ~isAnswered'
             /\ ~hasQuestion'
             /\ pendingGen' >= 1]_vars
    /\ [][(currentQuestion = 0 /\ currentQuestion' # 0) =>
             /\ currentQuestion' = 1
             /\ hasQuestion']_vars

(* C13 witness: just after Play again, following a session that had a miss *)
(* and left its Next button shown                                          *)
C13_Witness ==
    /\ screen = "game"
    /\ currentQuestion = 0
    /\ nextBtnShown
    /\ imperfectUsed = 1
    /\ score = 0
    /\ correctAnswers = 0
    /\ incorrectAnswers = 0
    /\ ~hasQuestion
    /\ pendingGen = 1

(* The number of figures of a display the question asks about *)
Count(asked) == Cardinality({i \in 1..Len(asked) : asked[i]})

(* The number a string of one digit is read as *)
NumericValue(str) ==
    CASE str = "0" -> 0 [] str = "1" -> 1 [] str = "2" -> 2 [] str = "3" -> 3
      [] str = "4" -> 4 [] str = "5" -> 5 [] str = "6" -> 6 [] str = "7" -> 7
      [] str = "8" -> 8 [] str = "9" -> 9

(* The run of createQuestion has computed the correct answer *)
Answered == creation.at \in {"answered", "options", "shapes"}

C15_FourDistinctOptions ==
    creation.at = "options" =>
        /\ Len(creation.options) = 4
        /\ \A i, j \in 1..Len(creation.options) :
              i # j => creation.options[i] # creation.options[j]
        /\ Cardinality({i \in 1..Len(creation.options) :
                           creation.options[i] = creation.correctAnswer}) = 1

(* C15 witness: the options of a LogicalChallenge question, the correct    *)
(* answer shuffled to the last place and "0" among the wrong ones          *)
C15_Witness ==
    /\ creation.at = "options"
    /\ creation.type = "logical_challenge"
    /\ creation.correctAnswer = "1"
    /\ creation.options[4] = "1"
    /\ creation.options[1] = "0"

(* C16: for every CountingColor question the number of displayed figures   *)
(* whose color is the target color equals the numeric value of             *)
(* correctAnswer, and for every LogicalChallenge question the number of    *)
(* displayed figures having both the target size and the target color      *)
(* equals the numeric value of correctAnswer; shuffling the display order  *)
(* does not change these counts.                                           *)
C16_CountIsCorrectAnswer ==
    /\ []((creation.type \in {"counting_color", "logical_challenge"}
             /\ Answered)
            => Count(creation.asked) = NumericValue(creation.correctAnswer))
    /\ [][(creation'.at = "shapes") =>
             /\ Len(creation'.asked) = Len(creation.asked)
             /\ Count(creation'.asked) = Count(creation.asked)]_vars

(* C16 witness: a CountingColor display of 5 target and 6 other figures,   *)
(* shuffled so that it begins with another figure and ends with a target   *)
C16_Witness ==
    /\ creation.at = "shapes"
    /\ creation.type = "counting_color"
    /\ creation.correctAnswer = "5"
    /\ Len(creation.asked) = 11
    /\ ~creation.asked[1]
    /\ creation.asked[11]

(* C17: in every LogicalChallenge question each distractor figure differs  *)
(* from the target (size, color) in exactly one of the two attributes: it  *)
(* either has the target color and a different size, or the target size    *)
(* and a different color, never both different and never both equal.       *)
C17_DistractorDiffersInOne ==
    (creation.type = "logical_challenge" /\ creation.role = "distractor") =>
        \/ /\ creation.figure.color = creation.color
           /\ creation.figure.size # creation.size
        \/ /\ creation.figure.size = creation.size
           /\ creation.figure.color # creation.color

(* C17 witness: the sixth distractor after three targets, of the target    *)
(* color and another size                                                  *)
C17_Witness ==
    /\ creation.type = "logical_challenge"
    /\ creation.role = "distractor"
    /\ Len(creation.asked) = 9
    /\ creation.figure.color = creation.color
    /\ creation.figure.size # creation.size

(* C18: in every ColorShape question exactly one displayed figure has both *)
(* the target shape and the target color: every other figure differs from  *)
(* the target in shape or in color (or both), and the display set has      *)
(* between 3 and 5 figures.                                                *)
C18_OneTargetFigure ==
    creation.type = "color_shape" =>
        /\ creation.role = "distractor" =>
              \/ creation.figure.shape # creation.shape
              \/ creation.figure.color # creation.color
        /\ Answered =>
              /\ Count(creation.asked) = 1
              /\ Len(creation.asked) \in 3..5

(* C18 witness: a ColorShape display of 5 figures, the target shuffled to  *)
(* the last place                                                          *)
C18_Witness ==
    /\ creation.at = "shapes"
    /\ creation.type = "color_shape"
    /\ Len(creation.asked) = 5
    /\ creation.asked[5]

(* The options of the question other than its correct answer *)
Distractors(c) == Elements(c.options) \ {c.correctAnswer}

(* C19: every ShapeIdentification and SizeRecognition question displays    *)
(* exactly one figure, highlighted at index 0, and its correctAnswer is    *)
(* the display name of that figure's shape (ShapeIdentification) or size   *)
(* (SizeRecognition); the three distractors are display names of three     *)
(* other distinct identifiers of the same kind.                            *)
C19_SingleFigureQuestion ==
    /\ (creation.type = "shape_identification" /\ Answered) =>
          /\ Len(creation.asked) = 1
          /\ creation.highlightIndex = 0
          /\ creation.figure # NoFigure
          /\ creation.correctAnswer
                = getShapeDisplayName(creation.figure.shape)
          /\ creation.at = "options" =>
                \E ids \in SUBSET (Elements(getShapeNames)
                                      \ {creation.figure.shape}) :
                   /\ Cardinality(ids) = 3
                   /\ Distractors(creation)
                         = {getShapeDisplayName(id) : id \in ids}
    /\ (creation.type = "size_recognition" /\ Answered) =>
          /\ Len(creation.asked) = 1
          /\ creation.highlightIndex = 0
          /\ creation.figure # NoFigure
          /\ creation.correctAnswer
                = getSizeDisplayName(creation.figure.size)
          /\ creation.at = "options" =>
                \E ids \in SUBSET (Elements(getSizeNames)
                                      \ {creation.figure.size}) :
                   /\ Cardinality(ids) = 3
                   /\ Distractors(creation)
                         = {getSizeDisplayName(id) : id \in ids}

(* C19 witness: a SizeRecognition question on a little figure, with Big as *)
(* its first option                                                        *)
C19_Witness ==
    /\ creation.at = "options"
    /\ creation.type = "size_recognition"
    /\ creation.figure.size = "little"
    /\ creation.correctAnswer = "Little"
    /\ creation.options[1] = "Big"
    /\ creation.highlightIndex = 0

(* C20: the reserved colors white and black never occur in a generated     *)
(* question: no figure of any display set has color white or black, and no *)
(* option of a ColorShape question is White or Black.                      *)
C20_NoReservedColor ==
    /\ creation.figure.color \notin {"white", "black"}
    /\ creation.color \notin {"white", "black"}
    /\ creation.type = "color_shape" =>
          \A i \in 1..Len(creation.options) :
             creation.options[i] \notin {"White", "Black"}

(* C20 witness: the options of a ColorShape question on a purple target    *)
(* among 5 figures                                                         *)
C20_Witness ==
    /\ creation.at = "options"
    /\ creation.type = "color_shape"
    /\ creation.color = "purple"
    /\ creation.correctAnswer = "Purple"
    /\ Len(creation.asked) = 5
    /\ Len(creation.options) = 4

(* C21: the motivational message is a function of the accuracy percentage *)
(* by threshold bands: accuracy >= 90 gives the first message, 75..89 the  *)
(* second, 60..74 the third, 40..59 the fourth, and below 40 the fifth;    *)
(* every accuracy in 0..100 maps to exactly one message.                   *)
C21_MessageByBand ==
    results.message # "none" =>
        /\ results.accuracy \in 0..100
        /\ results.accuracy >= 90
              <=> results.message = "Outstanding! You're a shapes master!"
        /\ results.accuracy \in 75..89
              <=> results.message = "Excellent work! Keep learning!"
        /\ results.accuracy \in 60..74
              <=> results.message = "Good job! Practice makes perfect!"
        /\ results.accuracy \in 40..59
              <=> results.message = "Nice try! You're getting better!"
        /\ results.accuracy < 40
              <=> results.message = "Keep practicing! You'll improve!"

(* C21 witness: accuracy 90, the lowest of the first band, has the first   *)
(* message                                                                 *)
C21_Witness ==
    /\ results.accuracy = 90
    /\ results.message = "Outstanding! You're a shapes master!"

(* C22: the session tracks the combinations (type, display) of the         *)
(* questions it generated and, whenever another combination is available,  *)
(* no question repeats a combination identical to one of the previous 8    *)
(* questions.  (The easy band has 490 combinations, so another one is      *)
(* always available.)                                                      *)
C22_NoRepeatInWindow ==
    \A i, j \in 1..Len(shown) :
        (i < j /\ j - i <= minCombinationsBeforeRepeat)
            => shown[i] # shown[j]

(* C23: the size catalog is ordered by multiplier: in the order of         *)
(* getSizeNames the multipliers are non-decreasing.  Stated on the sizes   *)
(* the quiz draws: a size listed before the size of the figure just        *)
(* created has a multiplier no larger than that figure's.                  *)
C23_SizesOrderedByMultiplier ==
    creation.figure # NoFigure =>
        \A i, j \in 1..Len(getSizeNames) :
            (i < j /\ getSizeNames[j] = creation.figure.size)
                => SizeMultiplier(getSizeNames[i])
                     <= SizeMultiplier(creation.figure.size)

(* C24: correctness is decided by string equality with the question's     *)
(* correctAnswer: a question has four option buttons, exactly one of which *)
(* carries the correctAnswer; the click on that one resolves the question  *)
(* as correct, the click on any of the other three as incorrect.           *)
C24_OneCorrectOption ==
    creation.at = "options" =>
        /\ Len(creation.options) = 4
        /\ Cardinality({i \in 1..4 :
                           creation.options[i] = creation.correctAnswer}) = 1
        /\ creation.clicked # "none" =>
              /\ creation.clicked \in Elements(creation.options)
              /\ isAnswered
              /\ resolutions = 1
              /\ Last(history).by = "answer"
              /\ Last(history).correct
                    <=> creation.clicked = creation.correctAnswer
              /\ IF creation.clicked = creation.correctAnswer
                 THEN /\ correctAnswers = currentQuestion
                      /\ incorrectAnswers = 0
                 ELSE /\ correctAnswers = currentQuestion - 1
                      /\ incorrectAnswers = 1

(* C24 witness: a button other than the one of the correct answer was      *)
(* clicked on a counting question                                          *)
C24_Witness ==
    /\ creation.type = COUNTING_COLOR
    /\ creation.clicked # "none"
    /\ creation.clicked # creation.correctAnswer
    /\ incorrectAnswers = 1

(* C25: a question no answer is given to is resolved by the countdown at   *)
(* the tick that brings timerValue from 1 to 0, the 15th tick since the    *)
(* question started at timerValue 15, and no tick fires for that question  *)
(* afterwards.                                                             *)
C25_TimeoutAtFifteenthTick ==
    /\ [][(hasQuestion /\ ~isAnswered /\ lastCall' = "handleTimeout")
             => (timerValue = 1 /\ timerValue' = timerDuration - 15)]_vars
    /\ [][(hasQuestion /\ isAnswered /\ history # <<>>
             /\ Last(history).by = "timeout")
             => lastCall' \notin {"tick", "handleTimeout",
                                  "handleTimeout (answered)"}]_vars

(* C26: the Next button is shown only while the current question is        *)
(* resolved: whenever a question is displayed on the game screen and       *)
(* isAnswered is false (question 1 of a session started with Play again    *)
(* included), the Next button is hidden.                                   *)
C26_NextHiddenWhileUnanswered ==
    (screen = "game" /\ hasQuestion /\ ~isAnswered) => ~nextBtnShown

(* C27: 0 <= currentQuestion <= 20 in every reachable state: no 21st       *)
(* question is ever generated.                                             *)
C27_AtMostTwentyQuestions == currentQuestion \in 0..totalQuestions

(* C28: whenever the results screen is shown, correctAnswers +             *)
(* incorrectAnswers = totalQuestions, no countdown is running, and the     *)
(* accuracy displayed is 5 * correctAnswers.                               *)
C28_ResultsAreComplete ==
    screen = "results" =>
        /\ correctAnswers + incorrectAnswers = totalQuestions
        /\ ~timerRunning
        /\ ~leaked
        /\ results.accuracy = 5 * correctAnswers

(* C30: 0 <= timerValue <= 15 in every reachable state; every tick         *)
(* decrements timerValue by exactly 1; timerValue changes only by a tick   *)
(* or by the start of a countdown, which sets it to 15.                    *)
C30_TimerValueInRange ==
    /\ [](timerValue \in 0..timerDuration)
    /\ [][lastCall' \in {"tick", "handleTimeout", "handleTimeout (answered)"}
             => timerValue' = timerValue - 1]_vars
    /\ [][timerValue' # timerValue
             => (timerValue' = timerValue - 1 \/ timerValue' = timerDuration)]_vars

(* C29: every ColorShape question has an unambiguous answer: every         *)
(* displayed figure whose shape is the target shape has the target color.  *)
C29_ColorShapeUnambiguous ==
    (creation.type = COLOR_SHAPE /\ creation.figure # NoFigure
       /\ creation.figure.shape = creation.shape)
        => creation.figure.color = creation.color

(* C31: a correct answer is only ever scored with at least 1 second       *)
(* remaining, every correct answer of a session awards between 12 and 135  *)
(* points, and the session score never exceeds 1750.                       *)
C31_PointsAndScoreBounded ==
    /\ \A i \in 1..Len(history) :
          (history[i].by = "answer" /\ history[i].correct)
              => /\ history[i].remaining >= 1
                 /\ history[i].points \in 12..135
    /\ score <= 1750

(* C32: under fair timer ticks and a player who presses Next whenever it  *)
(* is shown, every started session eventually reaches the results screen,  *)
(* and each of its questions 1..20, once displayed, is eventually resolved *)
(* (by an answer or by the timeout).                                       *)
C32_SessionReachesResults ==
    /\ (screen = "game") ~> (screen = "results")
    /\ \A k \in 1..totalQuestions :
          (screen = "game" /\ hasQuestion /\ ~isAnswered
             /\ currentQuestion = k)
              ~> (currentQuestion = k /\ isAnswered)

====
